---------------------------- MODULE Spec2Model ----------------------------
(***************************************************************************)
(* Model of the zodiac bot (src/bot.py): the sign registry, the            *)
(* combination function, the two content fetchers and the conversation     *)
(* state machine that main() registers with the ConversationHandler.       *)
(*                                                                         *)
(* Texts are sequences of string tokens.  The Russian labels and messages  *)
(* of the source are written in ASCII: the label of a sign is its English  *)
(* name capitalised ("Aries" stands for the key of ZODIAC_SIGNS whose      *)
(* value is "aries").                                                      *)
(***************************************************************************)
EXTENDS Integers, Sequences, FiniteSets, TLC

VARIABLES
    users,      \* the users that talk to the bot (fixed by Init)
    inputs,     \* the texts the users send and the pages the content source gives (fixed by Init)
    state,      \* user -> state of the user's conversation (END: none active)
    user_data,  \* user -> context.user_data, a dict with keys among sign, male_sign
    out,        \* the messages sent by reply_text while handling the last update
    requests,   \* the URLs fetched by requests.get while handling the last update
    raised,     \* the exception that ended the handler of the last update, or NoException
    last,       \* the last update: who sent it, its text, the handler it ran, the state before
    accepted,   \* user -> the texts accepted as sign and as male sign in the current conversation
    male_arg,   \* argument of a direct call of calculate_combination_number or of a fetcher
    female_arg, \* argument of a direct call of calculate_combination_number or of a fetcher
    combination, \* result of the call of calculate_combination_number
    page,       \* what requests.get gives in a direct call of a fetcher
    fetched     \* the direct call of a fetcher that was made, with its result

vars == <<users, inputs, state, user_data, out, requests, raised, last, accepted,
          male_arg, female_arg, combination, page, fetched>>

-----------------------------------------------------------------------------
(* Bounds of the environment.                                              *)

\* Containers in a page fetched while a conversation is going on.
MaxConversationDivs == 1

\* Containers in a page given to a direct call of a fetcher.
MaxDivs == 2

\* The users of a conversation type the labels of the first MaxSignInputs
\* signs of the registry (direct calls of the combination function take
\* all twelve).
MaxSignInputs == 3

-----------------------------------------------------------------------------
(* Module-level data of bot.py.  A dict is a sequence of <<key, value>>    *)
(* pairs in declaration order (a Python dict iterates in that order).      *)

PERIODS == <<"today", "week", "month">>

ZODIAC_SIGNS ==
    << <<"Aries", "aries">>,             <<"Taurus", "taurus">>,
       <<"Gemini", "gemini">>,           <<"Cancer", "cancer">>,
       <<"Leo", "leo">>,                 <<"Virgo", "virgo">>,
       <<"Libra", "libra">>,             <<"Scorpio", "scorpio">>,
       <<"Sagittarius", "sagittarius">>, <<"Capricorn", "capricorn">>,
       <<"Aquarius", "aquarius">>,       <<"Pisces", "pisces">> >>

ZODIAC_INDEXES ==
    << <<"Aries", 1>>,       <<"Taurus", 2>>,     <<"Gemini", 3>>,
       <<"Cancer", 4>>,      <<"Leo", 5>>,        <<"Virgo", 6>>,
       <<"Libra", 7>>,       <<"Scorpio", 8>>,    <<"Sagittarius", 9>>,
       <<"Capricorn", 10>>,  <<"Aquarius", 11>>,  <<"Pisces", 12>> >>

ZODIAC_INFO ==
    << <<"Aries", <<"Aries: ruler Mars">>>>,
       <<"Taurus", <<"Taurus: ruler Venus">>>>,
       <<"Gemini", <<"Gemini: ruler Mercury">>>>,
       <<"Cancer", <<"Cancer: ruler Moon">>>>,
       <<"Leo", <<"Leo: ruler Sun">>>>,
       <<"Virgo", <<"Virgo: ruler Mercury">>>>,
       <<"Libra", <<"Libra: ruler Venus">>>>,
       <<"Scorpio", <<"Scorpio: ruler Pluto">>>>,
       <<"Sagittarius", <<"Sagittarius: ruler Jupiter">>>>,
       <<"Capricorn", <<"Capricorn: ruler Saturn">>>>,
       <<"Aquarius", <<"Aquarius: ruler Uranus">>>>,
       <<"Pisces", <<"Pisces: ruler Neptune">>>> >>

SELECT_SIGN == 0
SELECT_OPTION == 1
SELECT_COMPATIBILITY_MALE == 2
SELECT_COMPATIBILITY_FEMALE == 3

\* ConversationHandler.END: the conversation is over and its key is removed,
\* so that the user has no active conversation.
END == -1

\* Python's None (an absent dict key read with .get, no exception raised).
None == "None"
NoException == "NoException"

-----------------------------------------------------------------------------
(* Python dict operations on the pair-sequence representation.             *)

\* list(d.keys()), in declaration order
keys(d) == [i \in 1..Len(d) |-> d[i][1]]

\* k in d
HasKey(d, k) == \E i \in 1..Len(d) : d[i][1] = k

\* d[k] for a key that is present
Item(d, k) == d[CHOOSE i \in 1..Len(d) : d[i][1] = k][2]

\* context.user_data is a function whose domain is the set of keys present.
\* user_data.get(k)
get(ud, k) == IF k \in DOMAIN ud THEN ud[k] ELSE None

\* user_data[k] = v
SetItem(ud, k, v) == [x \in (DOMAIN ud) \cup {k} |-> IF x = k THEN v ELSE ud[x]]

EmptyDict == [x \in {} |-> None]

-----------------------------------------------------------------------------
(* Texts.                                                                  *)

Whitespace == {" ", "\n"}

RECURSIVE lstrip(_)
lstrip(s) == IF s # <<>> /\ Head(s) \in Whitespace THEN lstrip(Tail(s)) ELSE s

RECURSIVE rstrip(_)
rstrip(s) ==
    IF s # <<>> /\ s[Len(s)] \in Whitespace
    THEN rstrip(SubSeq(s, 1, Len(s) - 1))
    ELSE s

\* str.strip()
strip(s) == rstrip(lstrip(s))

\* sep.join(parts)
RECURSIVE join(_, _)
join(sep, parts) ==
    IF parts = <<>> THEN <<>>
    ELSE IF Len(parts) = 1 THEN parts[1]
    ELSE parts[1] \o sep \o join(sep, Tail(parts))

-----------------------------------------------------------------------------
(* The content source: what requests.get may give for one GET.             *)

\* Raw text of a tag, before strip().
RawTexts == { <<"a">>, <<" ", "b", "\n">> }

\* A container <div class="b6a5d4949c e45a4c1552">: its first h2 and its
\* first p, each a sequence of length 0 (no such tag) or 1 (its raw text).
Divs == [h2 : {<<>>, <<<<"t">>>>}, p : {<<>>} \cup {<<t>> : t \in RawTexts}]

RECURSIVE SeqsUpTo(_, _)
SeqsUpTo(S, n) ==
    IF n = 0 THEN {<<>>}
    ELSE LET shorter == SeqsUpTo(S, n - 1)
         IN  shorter \cup {Append(q, x) : q \in shorter, x \in S}

\* requests.get either raises (no connection, timeout) or returns a
\* response with a status code and a body; the body is given by the
\* matching containers it holds, in document order.
Responses(n) ==
    {[kind |-> "error", status_code |-> 0, divs |-> <<>>]}
    \cup [kind : {"response"}, status_code : {200, 404},
          divs : SeqsUpTo(Divs, n)]

\* What a handler that calls requests.get may be given, and the one value
\* that stands for "not asked" in a handler that makes no request.
NoRequest == [kind |-> "error", status_code |-> 0, divs |-> <<>>]

ConversationResponses == Responses(MaxConversationDivs)

ResponsesTo(makes_request) ==
    IF makes_request THEN inputs.pages ELSE {NoRequest}

-----------------------------------------------------------------------------
(* Results of calls.  A call either returns a value or raises.             *)

Return(v, reqs) == [raised |-> NoException, value |-> <<v>>, requests |-> reqs]
Raise(exc, reqs) == [raised |-> exc, value |-> <<>>, requests |-> reqs]

HOROSCOPE_NOT_FOUND == <<"Goroskop ne najden.">>
SITE_DATA_UNAVAILABLE == <<"Ne udalos poluchit dannye s sajta.">>
NO_PARAGRAPH == <<"Informaciya otsutstvuet.">>
COMPATIBILITY_NOT_FOUND == <<"Informaciya o sovmestimosti ne najdena.">>

calculate_combination_number_swapped(male_sign, female_sign) ==
    IF ~HasKey(ZODIAC_INDEXES, male_sign) \/ ~HasKey(ZODIAC_INDEXES, female_sign)
    THEN Raise("KeyError", <<>>)
    ELSE Return(12 * (Item(ZODIAC_INDEXES, female_sign) - 1)
                   + Item(ZODIAC_INDEXES, male_sign), <<>>)

calculate_combination_number_base11(male_sign, female_sign) ==
    IF ~HasKey(ZODIAC_INDEXES, male_sign) \/ ~HasKey(ZODIAC_INDEXES, female_sign)
    THEN Raise("KeyError", <<>>)
    ELSE Return(11 * (Item(ZODIAC_INDEXES, male_sign) - 1)
                   + Item(ZODIAC_INDEXES, female_sign), <<>>)

\* calculate_combination_number reading the indexes with .get(sign, 0)
calculate_combination_number_with_default(male_sign, female_sign) ==
    LET male_index == IF HasKey(ZODIAC_INDEXES, male_sign)
                      THEN Item(ZODIAC_INDEXES, male_sign) ELSE 0
        female_index == IF HasKey(ZODIAC_INDEXES, female_sign)
                        THEN Item(ZODIAC_INDEXES, female_sign) ELSE 0
    IN  Return(12 * (male_index - 1) + female_index, <<>>)

calculate_combination_number(male_sign, female_sign) ==
    IF ~HasKey(ZODIAC_INDEXES, male_sign) \/ ~HasKey(ZODIAC_INDEXES, female_sign)
    THEN Raise("KeyError", <<>>)
    ELSE LET male_index == Item(ZODIAC_INDEXES, male_sign)
             female_index == Item(ZODIAC_INDEXES, female_sign)
         IN  Return(12 * (male_index - 1) + female_index, <<>>)

\* get_horoscope(sign, period), r being what requests.get gives
get_horoscope(sign, period, r) ==
    LET url == <<"horo.mail.ru/prediction", sign, period>>
    IN  IF r.kind = "error" THEN Raise("ConnectionError", <<url>>)
        ELSE IF r.divs # <<>>
             THEN LET horoscope_div == r.divs[1]
                  IN  IF horoscope_div.p = <<>>
                      THEN Raise("AttributeError", <<url>>)
                      ELSE Return(strip(horoscope_div.p[1]), <<url>>)
             ELSE Return(HOROSCOPE_NOT_FOUND, <<url>>)

\* get_compatibility parsing the body whatever the status code
get_compatibility_ignores_status(male_sign, female_sign, r) ==
    LET combination_number == calculate_combination_number(male_sign, female_sign)
    IN  IF combination_number.raised # NoException THEN combination_number
        ELSE
        LET url == <<"horo.mail.ru/compatibility/zodiac", combination_number.value[1]>>
            paragraph(div) == IF div.p # <<>> THEN strip(div.p[1]) ELSE NO_PARAGRAPH
            compatibility_details == [i \in 1..Len(r.divs) |-> paragraph(r.divs[i])]
        IN  IF r.kind = "error" THEN Raise("ConnectionError", <<url>>)
            ELSE IF r.divs # <<>>
                 THEN Return(join(<<"\n", "\n">>, compatibility_details), <<url>>)
                 ELSE Return(COMPATIBILITY_NOT_FOUND, <<url>>)

\* get_compatibility putting the title of a container before its paragraph
get_compatibility_with_titles(male_sign, female_sign, r) ==
    LET combination_number == calculate_combination_number(male_sign, female_sign)
    IN  IF combination_number.raised # NoException THEN combination_number
        ELSE
        LET url == <<"horo.mail.ru/compatibility/zodiac", combination_number.value[1]>>
            title(div) == IF div.h2 # <<>> THEN strip(div.h2[1]) ELSE <<"Bez zagolovka">>
            paragraph(div) == IF div.p # <<>> THEN strip(div.p[1]) ELSE NO_PARAGRAPH
            compatibility_details ==
                [i \in 1..Len(r.divs) |->
                    title(r.divs[i]) \o <<"\n">> \o paragraph(r.divs[i])]
        IN  IF r.kind = "error" THEN Raise("ConnectionError", <<url>>)
            ELSE IF r.status_code # 200 THEN Return(SITE_DATA_UNAVAILABLE, <<url>>)
            ELSE IF r.divs # <<>>
                 THEN Return(join(<<"\n", "\n">>, compatibility_details), <<url>>)
                 ELSE Return(COMPATIBILITY_NOT_FOUND, <<url>>)

\* get_compatibility(male_sign, female_sign), r being what requests.get gives
get_compatibility(male_sign, female_sign, r) ==
    LET combination_number == calculate_combination_number(male_sign, female_sign)
    IN  IF combination_number.raised # NoException THEN combination_number
        ELSE
        LET url == <<"horo.mail.ru/compatibility/zodiac", combination_number.value[1]>>
            paragraph(div) == IF div.p # <<>> THEN strip(div.p[1]) ELSE NO_PARAGRAPH
            compatibility_details == [i \in 1..Len(r.divs) |-> paragraph(r.divs[i])]
        IN  IF r.kind = "error" THEN Raise("ConnectionError", <<url>>)
            ELSE IF r.status_code # 200 THEN Return(SITE_DATA_UNAVAILABLE, <<url>>)
            ELSE IF r.divs # <<>>
                 THEN Return(join(<<"\n", "\n">>, compatibility_details), <<url>>)
                 ELSE Return(COMPATIBILITY_NOT_FOUND, <<url>>)

-----------------------------------------------------------------------------
(* Messages and keyboards.                                                 *)

\* ReplyKeyboardMarkup(keyboard, one_time_keyboard=..., resize_keyboard=True)
ReplyKeyboardMarkup(keyboard, one_time_keyboard) ==
    <<[keyboard |-> keyboard, one_time_keyboard |-> one_time_keyboard]>>

\* update.message.reply_text(text, reply_markup=...); <<>> is no markup
Message(text, reply_markup) == [text |-> text, reply_markup |-> reply_markup]

\* [[zodiac] for zodiac in ZODIAC_SIGNS.keys()]
sign_keyboard == [i \in 1..Len(ZODIAC_SIGNS) |-> <<keys(ZODIAC_SIGNS)[i]>>]

HOROSCOPE_TODAY == "Goroskop na segodnya"
HOROSCOPE_WEEK == "Goroskop na nedelyu"
HOROSCOPE_MONTH == "Goroskop na mesyac"
CHANGE_SIGN == "Smenit znak"
SIGN_INFO == "Informaciya o znake"
COMPATIBILITY == "Sovmestimost"

option_keyboard ==
    << <<HOROSCOPE_TODAY, HOROSCOPE_WEEK, HOROSCOPE_MONTH>>,
       <<CHANGE_SIGN, SIGN_INFO, COMPATIBILITY>> >>

GREETING == <<"Privet! Vyberite vash znak zodiaka:">>
PLEASE_WAIT == <<"Pozhalujsta, podozhdite nemnogo pered sleduyushchim soobshcheniem.">>
SIGN_INFO_UNAVAILABLE == <<"Informaciya o znake nedostupna.">>
CHOOSE_OPTION == <<"Pozhalujsta, vyberite opciyu iz spiska.">>
CHOOSE_MALE == <<"Vyberite znak muzhchiny:">>
CHOOSE_FROM_LIST == <<"Pozhalujsta, vyberite znak iz predlozhennogo spiska.">>
WHAT_NEXT == <<"Chto vas interesuet?">>
GOODBYE == <<"Do svidaniya!">>

\* f"Вы выбрали {user_sign}. Что вас интересует?"
YouChose(user_sign) == <<"Vy vybrali ", user_sign, ". Chto vas interesuet?">>

\* f"Вы выбрали {male_sign}. Теперь выберите знак женщины:"
YouChoseMale(male_sign) ==
    <<"Vy vybrali ", male_sign, ". Teper vyberite znak zhenshchiny:">>

-----------------------------------------------------------------------------
(* The handlers.  A handler gets the text of the update and the user's     *)
(* user_data; it returns the next state or raises, having sent the         *)
(* messages o, fetched the URLs reqs and left user_data as ud.             *)

Returns(st, ud, o, reqs) ==
    [raised |-> NoException, state |-> <<st>>, user_data |-> ud,
     out |-> o, requests |-> reqs]

Raises(exc, ud, o, reqs) ==
    [raised |-> exc, state |-> <<>>, user_data |-> ud,
     out |-> o, requests |-> reqs]

start(text, ud) ==
    Returns(SELECT_SIGN, ud,
            <<Message(GREETING, ReplyKeyboardMarkup(sign_keyboard, TRUE))>>, <<>>)

\* select_sign taking any text for a sign
select_sign_unchecked(text, ud) ==
    LET user_sign == text
    IN  Returns(SELECT_OPTION, SetItem(ud, "sign", user_sign),
                <<Message(YouChose(user_sign),
                          ReplyKeyboardMarkup(option_keyboard, FALSE))>>,
                <<>>)

\* select_sign storing the text before it is validated
select_sign_stores_first(text, ud) ==
    LET user_sign == text
        stored == SetItem(ud, "sign", user_sign)
    IN  IF ~HasKey(ZODIAC_SIGNS, user_sign)
        THEN Returns(SELECT_SIGN, stored, <<Message(PLEASE_WAIT, <<>>)>>, <<>>)
        ELSE Returns(SELECT_OPTION, stored,
                     <<Message(YouChose(user_sign),
                               ReplyKeyboardMarkup(option_keyboard, FALSE))>>,
                     <<>>)

select_sign(text, ud) ==
    LET user_sign == text
    IN  IF ~HasKey(ZODIAC_SIGNS, user_sign)
        THEN Returns(SELECT_SIGN, ud, <<Message(PLEASE_WAIT, <<>>)>>, <<>>)
        ELSE Returns(SELECT_OPTION, SetItem(ud, "sign", user_sign),
                     <<Message(YouChose(user_sign),
                               ReplyKeyboardMarkup(option_keyboard, FALSE))>>,
                     <<>>)

\* select_compatibility_male asking for the female sign at once
select_compatibility_male_skips(text, ud) ==
    Returns(SELECT_COMPATIBILITY_FEMALE, ud,
            <<Message(CHOOSE_MALE, ReplyKeyboardMarkup(sign_keyboard, TRUE))>>, <<>>)

select_compatibility_male(text, ud) ==
    Returns(SELECT_COMPATIBILITY_MALE, ud,
            <<Message(CHOOSE_MALE, ReplyKeyboardMarkup(sign_keyboard, TRUE))>>, <<>>)

\* reply_text(get_horoscope(ZODIAC_SIGNS[sign], period)); return SELECT_OPTION
horoscope_reply(sign, period, ud, r) ==
    IF ~HasKey(ZODIAC_SIGNS, sign) THEN Raises("KeyError", ud, <<>>, <<>>)
    ELSE LET horoscope == get_horoscope(Item(ZODIAC_SIGNS, sign), period, r)
         IN  IF horoscope.raised # NoException
             THEN Raises(horoscope.raised, ud, <<>>, horoscope.requests)
             ELSE Returns(SELECT_OPTION, ud,
                          <<Message(horoscope.value[1], <<>>)>>, horoscope.requests)

\* select_option starting over on a text that is no option
select_option_starts_over(text, ud, r) ==
    LET user_choice == text
        sign == get(ud, "sign")
    IN  IF user_choice = HOROSCOPE_TODAY THEN horoscope_reply(sign, "today", ud, r)
        ELSE IF user_choice = HOROSCOPE_WEEK THEN horoscope_reply(sign, "week", ud, r)
        ELSE IF user_choice = HOROSCOPE_MONTH THEN horoscope_reply(sign, "month", ud, r)
        ELSE IF user_choice = CHANGE_SIGN THEN start(text, ud)
        ELSE IF user_choice = SIGN_INFO
             THEN Returns(SELECT_OPTION, ud,
                          <<Message(IF HasKey(ZODIAC_INFO, sign)
                                    THEN Item(ZODIAC_INFO, sign)
                                    ELSE SIGN_INFO_UNAVAILABLE, <<>>)>>, <<>>)
        ELSE IF user_choice = COMPATIBILITY THEN select_compatibility_male(text, ud)
        ELSE start(text, ud)

select_option(text, ud, r) ==
    LET user_choice == text
        sign == get(ud, "sign")
    IN  IF user_choice = HOROSCOPE_TODAY THEN horoscope_reply(sign, "today", ud, r)
        ELSE IF user_choice = HOROSCOPE_WEEK THEN horoscope_reply(sign, "week", ud, r)
        ELSE IF user_choice = HOROSCOPE_MONTH THEN horoscope_reply(sign, "month", ud, r)
        ELSE IF user_choice = CHANGE_SIGN THEN start(text, ud)
        ELSE IF user_choice = SIGN_INFO
             THEN Returns(SELECT_OPTION, ud,
                          <<Message(IF HasKey(ZODIAC_INFO, sign)
                                    THEN Item(ZODIAC_INFO, sign)
                                    ELSE SIGN_INFO_UNAVAILABLE, <<>>)>>, <<>>)
        ELSE IF user_choice = COMPATIBILITY THEN select_compatibility_male(text, ud)
        ELSE Returns(SELECT_OPTION, ud, <<Message(CHOOSE_OPTION, <<>>)>>, <<>>)

\* select_compatibility_female storing the male sign under the key "sign" too
select_compatibility_female_overwrites_sign(text, ud) ==
    LET male_sign == text
    IN  IF ~HasKey(ZODIAC_SIGNS, male_sign)
        THEN Returns(SELECT_COMPATIBILITY_MALE, ud,
                     <<Message(CHOOSE_FROM_LIST, <<>>)>>, <<>>)
        ELSE Returns(SELECT_COMPATIBILITY_FEMALE,
                     SetItem(SetItem(ud, "male_sign", male_sign), "sign", male_sign),
                     <<Message(YouChoseMale(male_sign),
                               ReplyKeyboardMarkup(sign_keyboard, TRUE))>>,
                     <<>>)

\* select_compatibility_female going on to the female sign whatever the text
select_compatibility_female_unchecked(text, ud) ==
    LET male_sign == text
    IN  Returns(SELECT_COMPATIBILITY_FEMALE, SetItem(ud, "male_sign", male_sign),
                <<Message(YouChoseMale(male_sign),
                          ReplyKeyboardMarkup(sign_keyboard, TRUE))>>,
                <<>>)

select_compatibility_female(text, ud) ==
    LET male_sign == text
    IN  IF ~HasKey(ZODIAC_SIGNS, male_sign)
        THEN Returns(SELECT_COMPATIBILITY_MALE, ud,
                     <<Message(CHOOSE_FROM_LIST, <<>>)>>, <<>>)
        ELSE Returns(SELECT_COMPATIBILITY_FEMALE, SetItem(ud, "male_sign", male_sign),
                     <<Message(YouChoseMale(male_sign),
                               ReplyKeyboardMarkup(sign_keyboard, TRUE))>>,
                     <<>>)

\* compatibility_result sending the user back to the male sign
compatibility_result_back_to_male(text, ud, r) ==
    LET female_sign == text
        male_sign == get(ud, "male_sign")
    IN  IF ~HasKey(ZODIAC_SIGNS, female_sign)
        THEN Returns(SELECT_COMPATIBILITY_MALE, ud,
                     <<Message(CHOOSE_FROM_LIST, <<>>)>>, <<>>)
        ELSE LET compatibility == get_compatibility(male_sign, female_sign, r)
             IN  IF compatibility.raised # NoException
                 THEN Raises(compatibility.raised, ud, <<>>, compatibility.requests)
                 ELSE Returns(SELECT_OPTION, ud,
                              <<Message(compatibility.value[1], <<>>),
                                Message(WHAT_NEXT,
                                        ReplyKeyboardMarkup(option_keyboard, FALSE))>>,
                              compatibility.requests)

\* compatibility_result forgetting the stored male sign on a wrong input
compatibility_result_forgets_male(text, ud, r) ==
    LET female_sign == text
        male_sign == get(ud, "male_sign")
    IN  IF ~HasKey(ZODIAC_SIGNS, female_sign)
        THEN Returns(SELECT_COMPATIBILITY_FEMALE, SetItem(ud, "male_sign", None),
                     <<Message(CHOOSE_FROM_LIST, <<>>)>>, <<>>)
        ELSE LET compatibility == get_compatibility(male_sign, female_sign, r)
             IN  IF compatibility.raised # NoException
                 THEN Raises(compatibility.raised, ud, <<>>, compatibility.requests)
                 ELSE Returns(SELECT_OPTION, ud,
                              <<Message(compatibility.value[1], <<>>),
                                Message(WHAT_NEXT,
                                        ReplyKeyboardMarkup(option_keyboard, FALSE))>>,
                              compatibility.requests)

compatibility_result(text, ud, r) ==
    LET female_sign == text
        male_sign == get(ud, "male_sign")
    IN  IF ~HasKey(ZODIAC_SIGNS, female_sign)
        THEN Returns(SELECT_COMPATIBILITY_FEMALE, ud,
                     <<Message(CHOOSE_FROM_LIST, <<>>)>>, <<>>)
        ELSE LET compatibility == get_compatibility(male_sign, female_sign, r)
             IN  IF compatibility.raised # NoException
                 THEN Raises(compatibility.raised, ud, <<>>, compatibility.requests)
                 ELSE Returns(SELECT_OPTION, ud,
                              <<Message(compatibility.value[1], <<>>),
                                Message(WHAT_NEXT,
                                        ReplyKeyboardMarkup(option_keyboard, FALSE))>>,
                              compatibility.requests)

cancel(text, ud) ==
    Returns(END, ud, <<Message(GOODBYE, <<>>)>>, <<>>)

-----------------------------------------------------------------------------
(* main(): the ConversationHandler and the way it dispatches an update.    *)

UNREGISTERED == "Nesushchestvuyushchij znak"

Commands == {"/start", "/cancel", "/help"}

Labels == {ZODIAC_SIGNS[i][1] : i \in 1..Len(ZODIAC_SIGNS)}

Options == {HOROSCOPE_TODAY, HOROSCOPE_WEEK, HOROSCOPE_MONTH,
            CHANGE_SIGN, SIGN_INFO, COMPATIBILITY}

SignInputs == {keys(ZODIAC_SIGNS)[i] : i \in 1..MaxSignInputs}

\* The texts a user may send.
Texts == SignInputs \cup Options \cup {UNREGISTERED} \cup Commands

\* A handler is given by the texts it accepts and the name of its callback.
CommandHandler(command, callback) == [accepts |-> {command}, callback |-> callback]

\* MessageHandler(filters.TEXT & ~filters.COMMAND, callback)
MessageHandler(callback) == [accepts |-> Texts \ Commands, callback |-> callback]

\* the ConversationHandler built without its fallbacks
conv_handler_without_fallbacks ==
    [entry_points |-> <<CommandHandler("/start", "start")>>,
     states |->
        [s \in {SELECT_SIGN, SELECT_OPTION,
                SELECT_COMPATIBILITY_MALE, SELECT_COMPATIBILITY_FEMALE} |->
            IF s = SELECT_SIGN THEN <<MessageHandler("select_sign")>>
            ELSE IF s = SELECT_OPTION THEN <<MessageHandler("select_option")>>
            ELSE IF s = SELECT_COMPATIBILITY_MALE
                 THEN <<MessageHandler("select_compatibility_female")>>
            ELSE <<MessageHandler("compatibility_result")>>],
     fallbacks |-> <<>>,
     allow_reentry |-> FALSE]

conv_handler ==
    [entry_points |-> <<CommandHandler("/start", "start")>>,
     states |->
        [s \in {SELECT_SIGN, SELECT_OPTION,
                SELECT_COMPATIBILITY_MALE, SELECT_COMPATIBILITY_FEMALE} |->
            IF s = SELECT_SIGN THEN <<MessageHandler("select_sign")>>
            ELSE IF s = SELECT_OPTION THEN <<MessageHandler("select_option")>>
            ELSE IF s = SELECT_COMPATIBILITY_MALE
                 THEN <<MessageHandler("select_compatibility_female")>>
            ELSE <<MessageHandler("compatibility_result")>>],
     fallbacks |-> <<CommandHandler("/cancel", "cancel")>>,
     allow_reentry |-> FALSE]

NoHandler == "NoHandler"

\* The callback of the first handler of the list that accepts the text.
first_match(handlers, text) ==
    IF \E i \in 1..Len(handlers) : text \in handlers[i].accepts
    THEN handlers[CHOOSE i \in 1..Len(handlers) :
                    /\ text \in handlers[i].accepts
                    /\ \A j \in 1..(i - 1) : text \notin handlers[j].accepts].callback
    ELSE NoHandler

\* ConversationHandler.check_update: without an active conversation only
\* the entry points are tried; within one, the entry points are tried only
\* with allow_reentry, then the handlers of the state, then the fallbacks.
check_update(st, text) ==
    IF st = END THEN first_match(conv_handler.entry_points, text)
    ELSE IF conv_handler.allow_reentry
            /\ first_match(conv_handler.entry_points, text) # NoHandler
         THEN first_match(conv_handler.entry_points, text)
    ELSE IF first_match(conv_handler.states[st], text) # NoHandler
         THEN first_match(conv_handler.states[st], text)
    ELSE first_match(conv_handler.fallbacks, text)

-----------------------------------------------------------------------------
(* The state machine.                                                      *)

NoUpdate == [user |-> None, text |-> None, handler |-> NoHandler, from |-> END]

\* Nothing accepted yet in the conversation.
NothingAccepted == [sign |-> None, male_sign |-> None]

Init ==
    /\ users = {"u1"}
    /\ inputs = [texts |-> Texts, pages |-> ConversationResponses]
    /\ state = [u \in users |-> END]
    /\ user_data = [u \in users |-> EmptyDict]
    /\ out = <<>>
    /\ requests = <<>>
    /\ raised = NoException
    /\ last = NoUpdate
    /\ accepted = [u \in users |-> NothingAccepted]
    /\ male_arg = None
    /\ female_arg = None
    /\ combination = <<>>
    /\ page = NoRequest
    /\ fetched = <<>>

\* The texts accepted in the conversation, after the callback has run: a
\* conversation that starts has accepted nothing; select_sign going on to
\* SELECT_OPTION has accepted the text as the sign, and
\* select_compatibility_female going on to SELECT_COMPATIBILITY_FEMALE has
\* accepted it as the male sign.
Accept(acc, text, callback, res) ==
    IF callback = "start" THEN NothingAccepted
    ELSE IF callback = "select_sign" /\ res.state = <<SELECT_OPTION>>
         THEN [acc EXCEPT !.sign = text]
    ELSE IF callback = "select_compatibility_female"
            /\ res.state = <<SELECT_COMPATIBILITY_FEMALE>>
         THEN [acc EXCEPT !.male_sign = text]
    ELSE acc

\* handle_update keeping one user_data for all users
Handle_with_shared_user_data(u, text, callback, res) ==
    /\ state' = [state EXCEPT ![u] = IF res.raised = NoException
                                     THEN res.state[1] ELSE @]
    /\ user_data' = [v \in users |-> res.user_data]
    /\ out' = res.out
    /\ requests' = res.requests
    /\ raised' = res.raised
    /\ last' = [user |-> u, text |-> text, handler |-> callback, from |-> state[u]]
    /\ accepted' = [accepted EXCEPT ![u] = Accept(@, text, callback, res)]
    /\ UNCHANGED <<users, inputs, male_arg, female_arg, combination, page, fetched>>

\* ConversationHandler.handle_update: the callback runs; the state it
\* returns becomes the state of the conversation; when it raises, the
\* state stays as it was.
Handle(u, text, callback, res) ==
    /\ state' = [state EXCEPT ![u] = IF res.raised = NoException
                                     THEN res.state[1] ELSE @]
    /\ user_data' = [user_data EXCEPT ![u] = res.user_data]
    /\ out' = res.out
    /\ requests' = res.requests
    /\ raised' = res.raised
    /\ last' = [user |-> u, text |-> text, handler |-> callback, from |-> state[u]]
    /\ accepted' = [accepted EXCEPT ![u] = Accept(@, text, callback, res)]
    /\ UNCHANGED <<users, inputs, male_arg, female_arg, combination, page, fetched>>

Start(u) ==
    \E text \in inputs.texts :
        /\ check_update(state[u], text) = "start"
        /\ Handle(u, text, "start", start(text, user_data[u]))

SelectSign(u) ==
    \E text \in inputs.texts :
        /\ check_update(state[u], text) = "select_sign"
        /\ Handle(u, text, "select_sign", select_sign(text, user_data[u]))

SelectOption(u) ==
    \E text \in inputs.texts :
        /\ check_update(state[u], text) = "select_option"
        /\ \E r \in ResponsesTo(text \in {HOROSCOPE_TODAY, HOROSCOPE_WEEK,
                                           HOROSCOPE_MONTH}) :
              Handle(u, text, "select_option", select_option(text, user_data[u], r))

SelectCompatibilityFemale(u) ==
    \E text \in inputs.texts :
        /\ check_update(state[u], text) = "select_compatibility_female"
        /\ Handle(u, text, "select_compatibility_female",
                  select_compatibility_female(text, user_data[u]))

CompatibilityResult(u) ==
    \E text \in inputs.texts :
        /\ check_update(state[u], text) = "compatibility_result"
        /\ \E r \in ResponsesTo(HasKey(ZODIAC_SIGNS, text)) :
              Handle(u, text, "compatibility_result",
                     compatibility_result(text, user_data[u], r))

Cancel(u) ==
    \E text \in inputs.texts :
        /\ check_update(state[u], text) = "cancel"
        /\ Handle(u, text, "cancel", cancel(text, user_data[u]))

\* An update that no handler accepts is dropped.
Ignore(u) ==
    \E text \in inputs.texts :
        /\ check_update(state[u], text) = NoHandler
        /\ out' = <<>>
        /\ requests' = <<>>
        /\ raised' = NoException
        /\ last' = [user |-> u, text |-> text, handler |-> NoHandler, from |-> state[u]]
        /\ UNCHANGED <<users, inputs, state, user_data, accepted,
                       male_arg, female_arg, combination, page, fetched>>

Next ==
    \E u \in users :
        \/ Start(u)
        \/ SelectSign(u)
        \/ SelectOption(u)
        \/ SelectCompatibilityFemale(u)
        \/ CompatibilityResult(u)
        \/ Cancel(u)
        \/ Ignore(u)

Spec == Init /\ [][Next]_vars

-----------------------------------------------------------------------------
(* Direct calls of the combination function, as the tests make them.       *)

InitCombine ==
    /\ users = {"u1"}
    /\ inputs = [texts |-> Texts, pages |-> ConversationResponses]
    /\ state = [u \in users |-> END]
    /\ user_data = [u \in users |-> EmptyDict]
    /\ out = <<>>
    /\ requests = <<>>
    /\ raised = NoException
    /\ last = NoUpdate
    /\ accepted = [u \in users |-> NothingAccepted]
    /\ male_arg \in Labels \cup {UNREGISTERED}
    /\ female_arg \in Labels \cup {UNREGISTERED}
    /\ combination = <<>>
    /\ page = NoRequest
    /\ fetched = <<>>

Combine ==
    /\ combination = <<>>
    /\ combination' = <<calculate_combination_number(male_arg, female_arg)>>
    /\ UNCHANGED <<users, inputs, state, user_data, out, requests, raised, last,
                   accepted, male_arg, female_arg, page, fetched>>

NextCombine == Combine

SpecCombine == InitCombine /\ [][NextCombine]_vars

-----------------------------------------------------------------------------
(* Direct calls of the fetchers and of compatibility_result, as the tests  *)
(* make them with requests.get patched: the page is what requests.get      *)
(* gives.                                                                  *)

InitFetch ==
    /\ users = {"u1"}
    /\ inputs = [texts |-> Texts, pages |-> ConversationResponses]
    /\ state = [u \in users |-> END]
    /\ user_data = [u \in users |-> EmptyDict]
    /\ out = <<>>
    /\ requests = <<>>
    /\ raised = NoException
    /\ last = NoUpdate
    /\ accepted = [u \in users |-> NothingAccepted]
    /\ male_arg \in Labels
    /\ female_arg \in Labels
    /\ combination = <<>>
    /\ page \in Responses(MaxDivs)
    /\ fetched = <<>>

Fetched(call, period, result) ==
    /\ fetched = <<>>
    /\ fetched' = <<[call |-> call, period |-> period, result |-> result]>>
    /\ UNCHANGED <<users, inputs, state, user_data, out, requests, raised, last,
                   accepted, male_arg, female_arg, combination, page>>

\* get_horoscope(ZODIAC_SIGNS[male_arg], period)
CallGetHoroscope ==
    \E i \in 1..Len(PERIODS) :
        Fetched("get_horoscope", PERIODS[i],
                get_horoscope(Item(ZODIAC_SIGNS, male_arg), PERIODS[i], page))

\* get_compatibility(male_arg, female_arg)
CallGetCompatibility ==
    Fetched("get_compatibility", None, get_compatibility(male_arg, female_arg, page))

\* compatibility_result(update, context) with update.message.text = female_arg
\* and context.user_data = {"male_sign": male_arg}
CallCompatibilityResult ==
    Fetched("compatibility_result", None,
            compatibility_result(female_arg, SetItem(EmptyDict, "male_sign", male_arg),
                                 page))

NextFetch ==
    \/ CallGetHoroscope
    \/ CallGetCompatibility
    \/ CallCompatibilityResult

SpecFetch == InitFetch /\ [][NextFetch]_vars

-----------------------------------------------------------------------------
(* Two users talking to the bot at the same time: the updates of a user    *)
(* are handled one after the other, those of different users in any order. *)

\* What the two users send, and the pages they get: no connection, an
\* error page, a page without containers.
TwoUserTexts ==
    {"/start", "/cancel", "Aries", "Taurus", UNREGISTERED,
     HOROSCOPE_TODAY, CHANGE_SIGN, COMPATIBILITY}

InitTwo ==
    /\ users = {"u1", "u2"}
    /\ inputs = [texts |-> TwoUserTexts, pages |-> Responses(0)]
    /\ state = [u \in users |-> END]
    /\ user_data = [u \in users |-> EmptyDict]
    /\ out = <<>>
    /\ requests = <<>>
    /\ raised = NoException
    /\ last = NoUpdate
    /\ accepted = [u \in users |-> NothingAccepted]
    /\ male_arg = None
    /\ female_arg = None
    /\ combination = <<>>
    /\ page = NoRequest
    /\ fetched = <<>>

SpecTwo == InitTwo /\ [][Next]_vars

-----------------------------------------------------------------------------
(* Properties.                                                             *)

\* The ordinal of a registered sign.
ordinal(sign) == Item(ZODIAC_INDEXES, sign)

\* The call of calculate_combination_number has returned for a pair of
\* registered signs.
Combined ==
    /\ combination # <<>>
    /\ male_arg \in Labels
    /\ female_arg \in Labels

\* The step handles an update of user u whose text is text.
Receives(u, text) == last'.user = u /\ last'.text = text

\* The step handles an update of user u whose text is a plain text message
\* (no command) that is not the label of a registered sign.
ReceivesUnregistered(u) ==
    /\ last'.user = u
    /\ last'.text \notin Commands
    /\ ~HasKey(ZODIAC_SIGNS, last'.text)

\* The step handles an update of user u whose text is the label of a
\* registered sign.
ReceivesRegistered(u) == last'.user = u /\ HasKey(ZODIAC_SIGNS, last'.text)

\* The user's stored male sign is a registered sign.
HasMaleSign(u) == HasKey(ZODIAC_SIGNS, get(user_data[u], "male_sign"))

\* The user's stored sign is a registered sign.
HasSign(u) == HasKey(ZODIAC_SIGNS, get(user_data[u], "sign"))

\* C1: for every ordered pair (m, f) of registered signs,
\* calculate_combination_number(m, f) returns 12*(ordinal(m)-1) + ordinal(f);
\* the pair (Aries, Taurus) gives 2 and the pair (Capricorn, Aquarius) 119.
C1_CombinationFormula ==
    Combined =>
        /\ combination[1].raised = NoException
        /\ combination[1].value
             = <<12 * (ordinal(male_arg) - 1) + ordinal(female_arg)>>
        /\ (male_arg = "Aries" /\ female_arg = "Taurus")
             => combination[1].value = <<2>>
        /\ (male_arg = "Capricorn" /\ female_arg = "Aquarius")
             => combination[1].value = <<119>>

C1_Witness ==
    /\ Combined
    /\ male_arg = "Capricorn"
    /\ female_arg = "Aquarius"
    /\ combination[1].value = <<119>>

\* C2: the ordinals of the twelve signs are pairwise distinct and lie in
\* 1..12, and the combination function is a bijection from the 144 ordered
\* pairs of signs onto 1..144: the id of a pair is in 1..144, no other
\* ordered pair has the same id (so the id of (A, B) differs from the id
\* of (B, A) for different signs A and B), and every id in 1..144 is the
\* id of some pair.
C2_Bijection ==
    Combined =>
        LET id == combination[1].value[1]
            combine(m, f) == calculate_combination_number(m, f).value[1]
        IN  /\ Cardinality(Labels) = 12
            /\ \A a \in Labels : ordinal(a) \in 1..12
            /\ \A a, b \in Labels : a # b => ordinal(a) # ordinal(b)
            /\ id \in 1..144
            /\ \A m, f \in Labels :
                 <<m, f>> # <<male_arg, female_arg>> => combine(m, f) # id
            /\ male_arg # female_arg => combine(female_arg, male_arg) # id
            /\ \A n \in 1..144 : \E m, f \in Labels : combine(m, f) = n

C2_Witness ==
    /\ Combined
    /\ male_arg = "Taurus"
    /\ female_arg = "Aries"
    /\ combination[1].value = <<13>>
    /\ calculate_combination_number(female_arg, male_arg).value = <<2>>

\* C3: in state SelectSign a text that is not the label of a registered
\* sign leaves the state at SelectSign and the stored data (selectedSign
\* with it) as they were.
C3_SelectSignUnregistered ==
    [][\A u \in users :
         (state[u] = SELECT_SIGN /\ ReceivesUnregistered(u))
         => /\ state'[u] = SELECT_SIGN
            /\ get(user_data'[u], "sign") = get(user_data[u], "sign")
            /\ user_data'[u] = user_data[u]]_vars

C3_Witness ==
    /\ last.handler = "select_sign"
    /\ last.from = SELECT_SIGN
    /\ last.text = UNREGISTERED
    /\ state[last.user] = SELECT_SIGN
    /\ get(user_data[last.user], "sign") = "Taurus"

\* C4 (as claimed): in state SelectOption with a stored sign, each of the
\* three horoscope actions sends exactly one message, leaves the state at
\* SelectOption and the stored signs unchanged.
C4_HoroscopeAlwaysOneMessage ==
    [][\A u \in users :
         (/\ state[u] = SELECT_OPTION
          /\ HasSign(u)
          /\ last'.user = u
          /\ last'.text \in {HOROSCOPE_TODAY, HOROSCOPE_WEEK, HOROSCOPE_MONTH})
         => /\ Len(out') = 1
            /\ state'[u] = SELECT_OPTION
            /\ user_data'[u] = user_data[u]]_vars

\* C5: in state SelectCompatibilityMale a text that is not the label of a
\* registered sign leaves the state and the stored data as they were, and
\* sends the same single message each time (repeating it changes nothing);
\* the label of a registered sign is stored as the male sign and the state
\* becomes SelectCompatibilityFemale.
C5_SelectMale ==
    [][\A u \in users :
         /\ (state[u] = SELECT_COMPATIBILITY_MALE /\ ReceivesUnregistered(u))
            => /\ state'[u] = SELECT_COMPATIBILITY_MALE
               /\ user_data'[u] = user_data[u]
               /\ out' = <<Message(CHOOSE_FROM_LIST, <<>>)>>
         /\ (state[u] = SELECT_COMPATIBILITY_MALE /\ ReceivesRegistered(u))
            => /\ state'[u] = SELECT_COMPATIBILITY_FEMALE
               /\ get(user_data'[u], "male_sign") = last'.text
               /\ get(user_data'[u], "sign") = get(user_data[u], "sign")]_vars

C5_Witness ==
    /\ last.handler = "select_compatibility_female"
    /\ last.from = SELECT_COMPATIBILITY_MALE
    /\ last.text = UNREGISTERED
    /\ state[last.user] = SELECT_COMPATIBILITY_MALE
    /\ get(user_data[last.user], "male_sign") = "Gemini"

\* C6 (as claimed): in state SelectCompatibilityFemale with a registered
\* male sign stored, a text that is not the label of a registered sign
\* moves the conversation back to SelectCompatibilityMale.
C6_BackToMale ==
    [][\A u \in users :
         (/\ state[u] = SELECT_COMPATIBILITY_FEMALE
          /\ HasMaleSign(u)
          /\ ReceivesUnregistered(u))
         => state'[u] = SELECT_COMPATIBILITY_MALE]_vars

\* C6 (amended): in state SelectCompatibilityFemale with a registered male
\* sign stored, a text that is not the label of a registered sign leaves
\* the conversation in SelectCompatibilityFemale.
C6_StaysInFemale ==
    [][\A u \in users :
         (/\ state[u] = SELECT_COMPATIBILITY_FEMALE
          /\ HasMaleSign(u)
          /\ ReceivesUnregistered(u))
         => state'[u] = SELECT_COMPATIBILITY_FEMALE]_vars

C6_Witness ==
    /\ last.handler = "compatibility_result"
    /\ last.from = SELECT_COMPATIBILITY_FEMALE
    /\ last.text = UNREGISTERED
    /\ state[last.user] = SELECT_COMPATIBILITY_FEMALE
    /\ HasMaleSign(last.user)

\* C7: compatibility_result, the handler of SelectCompatibilityFemale,
\* given a text that is not the label of a registered sign, returns
\* SelectCompatibilityFemale, makes no request, leaves the stored male
\* sign as it was and sends exactly one message, the re-prompt.
C7_FemaleUnregistered ==
    [][\A u \in users :
         (state[u] = SELECT_COMPATIBILITY_FEMALE /\ ReceivesUnregistered(u))
         => /\ last'.handler = "compatibility_result"
            /\ raised' = NoException
            /\ state'[u] = SELECT_COMPATIBILITY_FEMALE
            /\ requests' = <<>>
            /\ get(user_data'[u], "male_sign") = get(user_data[u], "male_sign")
            /\ out' = <<Message(CHOOSE_FROM_LIST, <<>>)>>]_vars

C7_Witness ==
    /\ last.handler = "compatibility_result"
    /\ last.from = SELECT_COMPATIBILITY_FEMALE
    /\ last.text \in Options
    /\ state[last.user] = SELECT_COMPATIBILITY_FEMALE
    /\ get(user_data[last.user], "male_sign") = "Aries"
    /\ requests = <<>>
    /\ Len(out) = 1

\* C8 (as claimed): in state SelectCompatibilityFemale with the male sign
\* accepted in SelectCompatibilityMale stored, the label of a registered
\* sign moves the conversation to SelectOption and sends at least one
\* message, the first one carrying the text got for the combination id of
\* (stored male sign, entered female sign), the only page requested.
C8_CompletedLookup ==
    [][\A u \in users :
         (/\ state[u] = SELECT_COMPATIBILITY_FEMALE
          /\ HasMaleSign(u)
          /\ ReceivesRegistered(u))
         => /\ state'[u] = SELECT_OPTION
            /\ Len(out') >= 1
            /\ requests' =
                 << <<"horo.mail.ru/compatibility/zodiac",
                      12 * (ordinal(get(user_data[u], "male_sign")) - 1)
                         + ordinal(last'.text)>> >>]_vars

\* C9: a cancel command received in any state of a conversation
\* (SelectSign, SelectOption, SelectCompatibilityMale,
\* SelectCompatibilityFemale) ends the conversation and sends exactly one
\* message, the farewell.
C9_Cancel ==
    [][\A u \in users :
         (state[u] # END /\ Receives(u, "/cancel"))
         => /\ last'.handler = "cancel"
            /\ state'[u] = END
            /\ out' = <<Message(GOODBYE, <<>>)>>]_vars

C9_Witness ==
    /\ last.handler = "cancel"
    /\ last.text = "/cancel"
    /\ last.from = SELECT_COMPATIBILITY_FEMALE
    /\ state[last.user] = END
    /\ out = <<Message(GOODBYE, <<>>)>>

\* C10 (as claimed): a start command puts the conversation in SelectSign
\* and presents the twelve signs, whatever state the conversation is in
\* when the command arrives.
C10_StartResets ==
    [][\A u \in users :
         Receives(u, "/start")
         => /\ state'[u] = SELECT_SIGN
            /\ out' = <<Message(GREETING,
                                ReplyKeyboardMarkup(sign_keyboard, TRUE))>>]_vars

\* The text of a tag without the whitespace around it, said without
\* strip(): the one piece of raw that has only whitespace before and after
\* it and that neither starts nor ends with whitespace.
Trimmed(raw) ==
    CHOOSE t \in {SubSeq(raw, i, j) : i \in 1..(Len(raw) + 1), j \in 0..Len(raw)} :
        /\ t = <<>> \/ (t[1] \notin Whitespace /\ t[Len(t)] \notin Whitespace)
        /\ \E before, after \in SeqsUpTo(Whitespace, Len(raw)) :
               raw = before \o t \o after

\* A direct call of the fetcher or handler named call has been made.
Called(call) == fetched # <<>> /\ fetched[1].call = call

\* C11 (as claimed): get_horoscope never raises; when the request fails,
\* when the page has no container and when the first container has no
\* paragraph it returns the fallback "Goroskop ne najden."; otherwise it
\* returns the trimmed text of the first paragraph of the first container.
C11_HoroscopeNeverRaises ==
    Called("get_horoscope") =>
        /\ fetched[1].result.raised = NoException
        /\ fetched[1].result.value =
             << IF \/ page.kind = "error"
                   \/ page.divs = <<>>
                   \/ page.divs[1].p = <<>>
                THEN HOROSCOPE_NOT_FOUND
                ELSE Trimmed(page.divs[1].p[1]) >>

\* C12: when the content source answers a compatibility request with a
\* status other than 200, get_compatibility returns the fallback
\* "Ne udalos poluchit dannye s sajta." and compatibility_result sends it
\* as its first message, for every pair of signs (the id requested being
\* in 1..144) and whatever containers the body holds.
C12_NonSuccessStatus ==
    (page.kind = "response" /\ page.status_code # 200) =>
        /\ Called("get_compatibility") =>
             /\ fetched[1].result.value = <<SITE_DATA_UNAVAILABLE>>
             /\ Len(fetched[1].result.requests) = 1
             /\ fetched[1].result.requests[1][2] \in 1..144
        /\ Called("compatibility_result") =>
             /\ fetched[1].result.raised = NoException
             /\ fetched[1].result.out[1].text = SITE_DATA_UNAVAILABLE
             /\ fetched[1].result.requests[1][2] \in 1..144

C12_Witness ==
    /\ Called("compatibility_result")
    /\ male_arg = "Pisces"
    /\ female_arg = "Pisces"
    /\ page.kind = "response"
    /\ page.status_code = 404
    /\ Len(page.divs) = 2
    /\ page.divs[1].p = << <<"a">> >>
    /\ fetched[1].result.requests[1][2] = 144
    /\ fetched[1].result.out[1].text = SITE_DATA_UNAVAILABLE

\* The step handles an update of user u with a handler that calls
\* requests.get: a horoscope action in SelectOption with a stored sign, or
\* the label of a registered sign in SelectCompatibilityFemale with a
\* stored male sign.
ReceivesFetching(u) ==
    /\ last'.user = u
    /\ \/ /\ state[u] = SELECT_OPTION
          /\ HasSign(u)
          /\ last'.text \in {HOROSCOPE_TODAY, HOROSCOPE_WEEK, HOROSCOPE_MONTH}
       \/ /\ state[u] = SELECT_COMPATIBILITY_FEMALE
          /\ HasMaleSign(u)
          /\ HasKey(ZODIAC_SIGNS, last'.text)

\* C13 (as claimed): whatever requests.get gives (no connection, a status
\* other than 200, a page of any shape), the handler that made the request
\* does not raise, sends a text message and ends in SelectOption.
C13_FailuresAbsorbed ==
    [][\A u \in users :
         ReceivesFetching(u)
         => /\ raised' = NoException
            /\ Len(requests') = 1
            /\ Len(out') >= 1
            /\ state'[u] = SELECT_OPTION]_vars

\* C14: calculate_combination_number raises KeyError and returns no id
\* whenever the male argument or the female argument is not the label of
\* a registered sign.
C14_InvalidSign ==
    (/\ combination # <<>>
     /\ (male_arg \notin Labels \/ female_arg \notin Labels))
    => /\ combination[1].raised = "KeyError"
       /\ combination[1].value = <<>>

C14_Witness ==
    /\ combination # <<>>
    /\ male_arg = "Aries"
    /\ female_arg = UNREGISTERED
    /\ combination[1].raised = "KeyError"

\* C15: in state SelectOption the next state depends on the text only:
\* "change sign" goes to SelectSign and sends what the start command sends
\* (the greeting with the twelve signs); "compatibility" goes to
\* SelectCompatibilityMale and presents the twelve signs; the three
\* horoscope actions, "sign info" and every other text stay in
\* SelectOption, every other text being answered by "choose an option from
\* the list".  None of these steps changes the stored signs.
C15_SelectOptionDispatch ==
    [][\A u \in users :
         (state[u] = SELECT_OPTION /\ last'.user = u /\ last'.text \notin Commands)
         => /\ last'.handler = "select_option"
            /\ user_data'[u] = user_data[u]
            /\ last'.text = CHANGE_SIGN
                 => /\ state'[u] = SELECT_SIGN
                    /\ out' = start("/start", user_data[u]).out
                    /\ Len(out') = 1
                    /\ out'[1].text = GREETING
                    /\ Len(out'[1].reply_markup[1].keyboard) = 12
            /\ last'.text = COMPATIBILITY
                 => /\ state'[u] = SELECT_COMPATIBILITY_MALE
                    /\ Len(out') = 1
                    /\ out'[1].reply_markup[1].keyboard
                         = [i \in 1..12 |-> <<ZODIAC_SIGNS[i][1]>>]
            /\ last'.text \notin {CHANGE_SIGN, COMPATIBILITY}
                 => state'[u] = SELECT_OPTION
            /\ last'.text \notin Options
                 => out' = <<Message(CHOOSE_OPTION, <<>>)>>]_vars

C15_Witness ==
    /\ last.handler = "select_option"
    /\ last.from = SELECT_OPTION
    /\ last.text = CHANGE_SIGN
    /\ state[last.user] = SELECT_SIGN
    /\ get(user_data[last.user], "sign") = "Gemini"
    /\ get(user_data[last.user], "male_sign") = "Taurus"
    /\ out[1].text = GREETING

\* The step requests a compatibility page.
RequestsCompatibility ==
    \E i \in 1..Len(requests') :
        requests'[i][1] = "horo.mail.ru/compatibility/zodiac"

\* The changes of state of a conversation: its start, and the transitions
\* of the state machine with the text that causes each.
Transition(from, to, text) ==
    \/ from = END /\ to = SELECT_SIGN /\ text = "/start"
    \/ from = SELECT_SIGN /\ to = SELECT_OPTION /\ HasKey(ZODIAC_SIGNS, text)
    \/ from = SELECT_OPTION /\ to = SELECT_SIGN /\ text = CHANGE_SIGN
    \/ from = SELECT_OPTION /\ to = SELECT_COMPATIBILITY_MALE /\ text = COMPATIBILITY
    \/ /\ from = SELECT_COMPATIBILITY_MALE
       /\ to = SELECT_COMPATIBILITY_FEMALE
       /\ HasKey(ZODIAC_SIGNS, text)
    \/ /\ from = SELECT_COMPATIBILITY_FEMALE
       /\ to = SELECT_OPTION
       /\ HasKey(ZODIAC_SIGNS, text)
    \/ /\ from = SELECT_COMPATIBILITY_FEMALE
       /\ to = SELECT_COMPATIBILITY_MALE
       /\ ~HasKey(ZODIAC_SIGNS, text) /\ text \notin Commands
    \/ from # END /\ to = END /\ text = "/cancel"

\* C16: no state is skipped.  A change of the state of a conversation is
\* caused by the one update handled in the step, sent by the user of the
\* conversation, and is the start of the conversation or one of the
\* transitions SelectSign -> SelectOption (registered sign), SelectOption
\* -> SelectSign (change sign), SelectOption -> SelectCompatibilityMale
\* (compatibility), SelectCompatibilityMale -> SelectCompatibilityFemale
\* (registered sign), SelectCompatibilityFemale -> SelectOption
\* (registered sign), SelectCompatibilityFemale -> SelectCompatibilityMale
\* (unregistered text), any state -> Cancelled (cancel).  A compatibility
\* page is requested only by the handler of SelectCompatibilityFemale,
\* with the male sign accepted in SelectCompatibilityMale in the same
\* conversation, and the conversation then leaves for SelectOption unless
\* the handler raises.
C16_NoStateSkipped ==
    [][/\ \A u \in users :
            state'[u] # state[u]
            => /\ last'.user = u
               /\ last'.from = state[u]
               /\ Transition(state[u], state'[u], last'.text)
       /\ RequestsCompatibility
            => /\ state[last'.user] = SELECT_COMPATIBILITY_FEMALE
               /\ HasKey(ZODIAC_SIGNS, accepted[last'.user].male_sign)
               /\ get(user_data[last'.user], "male_sign")
                    = accepted[last'.user].male_sign
               /\ raised' = NoException
                    => state'[last'.user] = SELECT_OPTION]_vars

C16_Witness ==
    /\ last.handler = "compatibility_result"
    /\ last.from = SELECT_COMPATIBILITY_FEMALE
    /\ state[last.user] = SELECT_OPTION
    /\ raised = NoException
    /\ accepted[last.user].male_sign = "Taurus"
    /\ requests = << <<"horo.mail.ru/compatibility/zodiac", 15>> >>

\* The paragraphs of the containers, joined by a blank line, built from
\* the last container backwards.
RECURSIVE Paragraphs(_)
Paragraphs(divs) ==
    LET n == Len(divs)
        paragraph == IF divs[n].p = <<>> THEN NO_PARAGRAPH ELSE Trimmed(divs[n].p[1])
    IN  IF n = 1 THEN paragraph
        ELSE Paragraphs(SubSeq(divs, 1, n - 1)) \o <<"\n", "\n">> \o paragraph

\* C17: on a response with status 200 get_compatibility returns the
\* paragraphs of all containers joined by a blank line, in document order,
\* one entry per container, a container without paragraph giving
\* "Informaciya otsutstvuet."; no heading appears in the result; without
\* any container the result is "Informaciya o sovmestimosti ne najdena.",
\* which is not the fallback of a status other than 200.
C17_CompatibilityText ==
    (Called("get_compatibility") /\ page.kind = "response" /\ page.status_code = 200)
    => /\ fetched[1].result.raised = NoException
       /\ page.divs = <<>>
            => /\ fetched[1].result.value = <<COMPATIBILITY_NOT_FOUND>>
               /\ COMPATIBILITY_NOT_FOUND # SITE_DATA_UNAVAILABLE
       /\ page.divs # <<>>
            => /\ fetched[1].result.value = <<Paragraphs(page.divs)>>
               /\ \A i \in 1..Len(fetched[1].result.value[1]) :
                    /\ fetched[1].result.value[1][i] # "t"
                    /\ fetched[1].result.value[1][i] # "Bez zagolovka"

C17_Witness ==
    /\ Called("get_compatibility")
    /\ page.kind = "response"
    /\ page.status_code = 200
    /\ Len(page.divs) = 2
    /\ page.divs[1] = [h2 |-> << <<"t">> >>, p |-> <<>>]
    /\ page.divs[2] = [h2 |-> << <<"t">> >>, p |-> << <<" ", "b", "\n">> >>]
    /\ fetched[1].result.value = << NO_PARAGRAPH \o <<"\n", "\n", "b">> >>

\* C18 (as claimed): the cancel command leaves the user without stored
\* sign and without stored male sign, and once the conversation is over
\* no text message changes its state.
C18_SessionDiscarded ==
    [][\A u \in users :
         /\ (state[u] # END /\ Receives(u, "/cancel"))
            => /\ state'[u] = END
               /\ get(user_data'[u], "sign") = None
               /\ get(user_data'[u], "male_sign") = None
         /\ (state[u] = END /\ last'.user = u /\ last'.text \notin Commands)
            => state'[u] = END]_vars

\* What handling the text does to a conversation in state st with the
\* stored data ud, r being what requests.get gives, whoever else talks to
\* the bot.
Alone(st, ud, text, r) ==
    LET callback == check_update(st, text)
        res == IF callback = "start" THEN start(text, ud)
               ELSE IF callback = "select_sign" THEN select_sign(text, ud)
               ELSE IF callback = "select_option" THEN select_option(text, ud, r)
               ELSE IF callback = "select_compatibility_female"
                    THEN select_compatibility_female(text, ud)
               ELSE IF callback = "compatibility_result"
                    THEN compatibility_result(text, ud, r)
               ELSE cancel(text, ud)
    IN  IF callback = NoHandler THEN [state |-> st, user_data |-> ud, out |-> <<>>]
        ELSE [state |-> IF res.raised = NoException THEN res.state[1] ELSE st,
              user_data |-> res.user_data,
              out |-> res.out]

C20_StoredSignsValid ==
    /\ \A u \in users :
         /\ state[u] = SELECT_OPTION
              => /\ HasSign(u)
                 /\ get(user_data[u], "sign") = accepted[u].sign
         /\ state[u] = SELECT_COMPATIBILITY_FEMALE
              => /\ HasMaleSign(u)
                 /\ get(user_data[u], "male_sign") = accepted[u].male_sign
    /\ raised # "KeyError"
    /\ \A i \in 1..Len(out) : out[i].text # SIGN_INFO_UNAVAILABLE

C20_Witness ==
    /\ last.handler = "select_option"
    /\ last.text = SIGN_INFO
    /\ state[last.user] = SELECT_OPTION
    /\ accepted[last.user] = [sign |-> "Gemini", male_sign |-> None]
    /\ get(user_data[last.user], "male_sign") = "Aries"
    /\ out = <<Message(Item(ZODIAC_INFO, "Gemini"), <<>>)>>

\* C21: the stored sign changes only when the label of a registered sign
\* is received in SelectSign, and becomes that label; no step of the
\* compatibility sub-flow (in SelectCompatibilityMale or
\* SelectCompatibilityFemale, with a registered or an unregistered text)
\* changes it, and in SelectOption, also after the sub-flow, the horoscope
\* actions request the page of the sign accepted in SelectSign and "sign
\* info" sends the description of that sign, not of the male or female
\* sign entered in the sub-flow.
C21_SignFrame ==
    [][\A u \in users :
         /\ get(user_data'[u], "sign") # get(user_data[u], "sign")
            => /\ state[u] = SELECT_SIGN
               /\ last'.user = u
               /\ HasKey(ZODIAC_SIGNS, last'.text)
               /\ get(user_data'[u], "sign") = last'.text
         /\ state[u] \in {SELECT_COMPATIBILITY_MALE, SELECT_COMPATIBILITY_FEMALE}
            => get(user_data'[u], "sign") = accepted[u].sign
         /\ (state[u] = SELECT_OPTION /\ last'.user = u)
            => /\ \A i \in 1..Len(PERIODS) :
                    last'.text = <<HOROSCOPE_TODAY, HOROSCOPE_WEEK, HOROSCOPE_MONTH>>[i]
                    => requests' = << <<"horo.mail.ru/prediction",
                                        Item(ZODIAC_SIGNS, accepted[u].sign),
                                        PERIODS[i]>> >>
               /\ last'.text = SIGN_INFO
                    => out' = <<Message(Item(ZODIAC_INFO, accepted[u].sign), <<>>)>>]_vars

C21_Witness ==
    /\ last.handler = "select_option"
    /\ last.from = SELECT_OPTION
    /\ last.text = HOROSCOPE_WEEK
    /\ accepted[last.user] = [sign |-> "Aries", male_sign |-> "Taurus"]
    /\ get(user_data[last.user], "sign") = "Aries"
    /\ get(user_data[last.user], "male_sign") = "Taurus"
    /\ requests = << <<"horo.mail.ru/prediction", "aries", "week">> >>

=============================================================================
